---- MODULE Spec2Model ----
(***************************************************************************)
(* SafePlate (recipes app): the response normaliser parse_agent_output,    *)
(* the generator client call_recipe_agent and the view                     *)
(* generate_safe_recipe with its Request/Attempt store.                    *)
(*                                                                         *)
(* Python values are tagged records, one field name per type so that two   *)
(* values of different types are always comparable:                        *)
(*   None  [t |-> "none"]            bool  [t |-> "bool", b |-> TRUE]      *)
(*   int   [t |-> "int", n |-> 1]     str   [t |-> "str", s |-> <<chars>>] *)
(*   list  [t |-> "list", len |-> 0]  dict  [t |-> "dict", d |-> function] *)
(* A str is a sequence of characters.  A character is [c |-> "x"]; three   *)
(* kinds of chunk stand for a run of characters that is treated as a unit: *)
(*   [m |-> f]    the serialised members of the JSON object f              *)
(*   [lit |-> v]  the JSON text of the non-object value v                  *)
(*   [repr |-> v] Python's str(v) of a non-str value v                     *)
(*   [run |-> c, n |-> k]   the character c repeated k times               *)
(*   [cut |-> ch, n |-> k]  the first k characters of the chunk ch         *)
(***************************************************************************)
EXTENDS Integers, Sequences, FiniteSets, TLC

\* ------------------------------------------------------------ bounds
\* Submissions served concurrently by the host framework.
NumSubs == 2
\* Longest run of text put before and after an embedded JSON object.
MaxPad == 1

\* ------------------------------------------------------------ values
None == [t |-> "none"]
PyBool(b) == [t |-> "bool", b |-> b]
PyInt(n) == [t |-> "int", n |-> n]
PyStr(s) == [t |-> "str", s |-> s]
PyList(n) == [t |-> "list", len |-> n]
PyDict(f) == [t |-> "dict", d |-> f]

Ch(c) == [c |-> c]
Chars(w) == [i \in DOMAIN w |-> Ch(w[i])]
Text(w) == PyStr(Chars(w))
Msg(m) == <<Ch(m)>>
EmptyDict == [k \in {} |-> None]

IsDict(v) == v.t = "dict"
IsStr(v) == v.t = "str"
IsBool(v) == v.t = "bool"

\* Python truthiness, as used by `or`.
Truthy(v) ==
    CASE v.t = "none" -> FALSE
      [] v.t = "bool" -> v.b
      [] v.t = "int"  -> v.n # 0
      [] v.t = "str"  -> Len(v.s) > 0
      [] v.t = "list" -> v.len > 0
      [] v.t = "dict" -> DOMAIN v.d # {}

\* a or b
PyOr(a, b) == IF Truthy(a) THEN a ELSE b

\* dict.get(k) with default None, and k in dict
Get(f, k) == IF k \in DOMAIN f THEN f[k] ELSE None
GetDefault(f, k, dflt) == IF k \in DOMAIN f THEN f[k] ELSE dflt

\* type(v) as it prints in an f-string
TypeName(v) ==
    CASE v.t = "none" -> "<class 'NoneType'>"
      [] v.t = "bool" -> "<class 'bool'>"
      [] v.t = "int"  -> "<class 'int'>"
      [] v.t = "str"  -> "<class 'str'>"
      [] v.t = "list" -> "<class 'list'>"
      [] v.t = "dict" -> "<class 'dict'>"

\* str(v) for a value that is not a str
Repr(v) == <<[repr |-> v]>>

\* ------------------------------------------------------------ strings
IsSpace(ch) == ch = Ch(" ")

UpperCase ==
    <<"A", "B", "C", "D", "E", "F", "G", "H", "I", "J", "K", "L", "M",
      "N", "O", "P", "Q", "R", "S", "T", "U", "V", "W", "X", "Y", "Z">>
LowerCase ==
    <<"a", "b", "c", "d", "e", "f", "g", "h", "i", "j", "k", "l", "m",
      "n", "o", "p", "q", "r", "s", "t", "u", "v", "w", "x", "y", "z">>

LowerChar(c) ==
    IF \E i \in DOMAIN UpperCase : UpperCase[i] = c
    THEN LowerCase[CHOOSE i \in DOMAIN UpperCase : UpperCase[i] = c]
    ELSE c

\* str.lower()
Lower(s) ==
    [i \in DOMAIN s |-> IF DOMAIN s[i] = {"c"} THEN Ch(LowerChar(s[i].c)) ELSE s[i]]

\* str.strip()
Strip(s) ==
    LET keep == {i \in DOMAIN s : ~IsSpace(s[i])}
    IN  IF keep = {} THEN <<>>
        ELSE LET lo == CHOOSE i \in keep : \A j \in keep : i <= j
                 hi == CHOOSE i \in keep : \A j \in keep : j <= i
             IN  SubSeq(s, lo, hi)

\* str.find / str.rfind of one character; positions count from 1 and 0
\* stands for Python's -1 (not found).
Find(s, c) ==
    LET hit == {i \in DOMAIN s : s[i] = Ch(c)}
    IN  IF hit = {} THEN 0 ELSE CHOOSE i \in hit : \A j \in hit : i <= j

RFind(s, c) ==
    LET hit == {i \in DOMAIN s : s[i] = Ch(c)}
    IN  IF hit = {} THEN 0 ELSE CHOOSE i \in hit : \A j \in hit : j <= i


\* ------------------------------------------------------------ JSON
\* json.dumps of an object and of a non-object value
Dumps(v) ==
    IF IsDict(v)
    THEN IF DOMAIN v.d = {} THEN <<Ch("{"), Ch("}")>>
         ELSE <<Ch("{"), [m |-> v.d], Ch("}")>>
    ELSE <<[lit |-> v]>>

\* json.loads: [ok |-> TRUE, val |-> value] or [ok |-> FALSE] (JSONDecodeError).
\* Whitespace around the document is allowed; anything else around or inside
\* it is a decode error.
Loads(s) ==
    LET b == Strip(s)
    IN  CASE Len(b) = 1 /\ DOMAIN b[1] = {"lit"} ->
               [ok |-> TRUE, val |-> b[1].lit]
          [] Len(b) >= 2 /\ b[1] = Ch("{") /\ b[Len(b)] = Ch("}")
             /\ (\A i \in 2..(Len(b) - 1) : IsSpace(b[i])) ->
               [ok |-> TRUE, val |-> PyDict(EmptyDict)]
          [] Len(b) = 3 /\ b[1] = Ch("{") /\ DOMAIN b[2] = {"m"} /\ b[3] = Ch("}") ->
               [ok |-> TRUE, val |-> PyDict(b[2].m)]
          [] OTHER -> [ok |-> FALSE]

\* ------------------------------------------------------------ lengths
\* len() of a str: a character chunk counts the characters it spells, a
\* serialised JSON value the characters json.dumps writes for it.
RECURSIVE IntWidth(_)
IntWidth(n) == IF n < 10 THEN 1 ELSE 1 + IntWidth(n \div 10)

RECURSIVE Width(_), TextWidth(_), JsonWidth(_), MembersWidth(_, _)
Width(ch) ==
    CASE DOMAIN ch = {"c"}        -> Len(ch.c)
      [] DOMAIN ch = {"run", "n"} -> ch.n
      [] DOMAIN ch = {"cut", "n"} -> ch.n
      [] DOMAIN ch = {"m"}        -> MembersWidth(ch.m, DOMAIN ch.m)
      [] DOMAIN ch = {"lit"}      -> JsonWidth(ch.lit)
      [] DOMAIN ch = {"repr"}     -> JsonWidth(ch.repr)

TextWidth(s) == IF s = <<>> THEN 0 ELSE Width(Head(s)) + TextWidth(Tail(s))

\* null, true, false, digits, a quoted string, a list of zeros, an object
JsonWidth(v) ==
    CASE v.t = "none" -> 4
      [] v.t = "bool" -> IF v.b THEN 4 ELSE 5
      [] v.t = "int"  -> IntWidth(v.n)
      [] v.t = "str"  -> TextWidth(v.s) + 2
      [] v.t = "list" -> IF v.len = 0 THEN 2 ELSE 3 * v.len
      [] v.t = "dict" -> IF DOMAIN v.d = {} THEN 2
                         ELSE 2 + MembersWidth(v.d, DOMAIN v.d)

\* "key": value for each key, joined by ", "
MembersWidth(f, keys) ==
    IF keys = {} THEN 0
    ELSE LET k == CHOOSE x \in keys : TRUE
         IN  Len(k) + 4 + JsonWidth(f[k])
             + (IF keys = {k} THEN 0 ELSE 2 + MembersWidth(f, keys \ {k}))

\* The first n characters of one chunk that is longer than n.
Cut(ch, n) ==
    IF DOMAIN ch = {"run", "n"} THEN [run |-> ch.run, n |-> n]
    ELSE [cut |-> ch, n |-> n]

\* Mutation: the whole content is echoed, s for s[:n].
TakeWhole(s, n) == s

\* s[:n]
RECURSIVE Take(_, _)
Take(s, n) ==
    IF n <= 0 \/ s = <<>> THEN <<>>
    ELSE LET w == Width(Head(s))
         IN  IF w <= n THEN <<Head(s)>> \o Take(Tail(s), n - w)
             ELSE <<Cut(Head(s), n)>>

\* ------------------------------------------------------------ normaliser
DefaultRecipeName == Text(<<"Untitled Recipe">>)
DefaultRecipeText == Text(<<"No recipe text provided.">>)
\* The length of the raw content echoed in a parse-failure note.
PreviewLen == 200

\* The record every early return of parse_agent_output builds.
FailureRecord(notes) ==
    [recipe_name  |-> DefaultRecipeName,
     recipe_text  |-> DefaultRecipeText,
     is_safe      |-> PyBool(FALSE),
     safety_notes |-> PyStr(notes)]

\* ", ".join(keys), each key a character sequence
RECURSIVE Join(_)
Join(keys) ==
    IF Len(keys) = 0 THEN <<>>
    ELSE IF Len(keys) = 1 THEN keys[1]
    ELSE keys[1] \o Msg(", ") \o Join(Tail(keys))

\* Mutation: recipe_name = output.get("recipe_name", default), which keeps an
\* empty or null name.
RecipeNameOfNoOr(output) ==
    GetDefault(output, "recipe_name", GetDefault(output, "title", DefaultRecipeName))

\* recipe_name = output.get("recipe_name") or output.get("title") or default
RecipeNameOf(output) ==
    PyOr(Get(output, "recipe_name"), PyOr(Get(output, "title"), DefaultRecipeName))

\* recipe_text = output.get("recipe_text") or output.get("text") or default
RecipeTextOf(output) ==
    PyOr(Get(output, "recipe_text"), PyOr(Get(output, "text"), DefaultRecipeText))

TruthyTokens == {Chars(<<"t", "r", "u", "e">>), Chars(<<"y", "e", "s">>), Chars(<<"1">>)}

\* Mutation: the permissive default, is_safe True when the field is absent.
IsSafeOfPermissive(output) ==
    LET is_safe_raw == Get(output, "is_safe")
    IN  IF IsBool(is_safe_raw) THEN is_safe_raw.b
        ELSE IF IsStr(is_safe_raw) THEN Lower(is_safe_raw.s) \in TruthyTokens
        ELSE "is_safe" \notin DOMAIN output

\* is_safe: a bool as it is, a str by its lowercase spelling, anything else False
IsSafeOf(output) ==
    LET is_safe_raw == Get(output, "is_safe")
    IN  IF IsBool(is_safe_raw) THEN is_safe_raw.b
        ELSE IF IsStr(is_safe_raw) THEN Lower(is_safe_raw.s) \in TruthyTokens
        ELSE FALSE

\* safety_notes: a str as it is, another value by str(), None by a default
SafetyNotesOf(output, is_safe) ==
    LET safety_notes_raw == Get(output, "safety_notes")
    IN  IF IsStr(safety_notes_raw) THEN safety_notes_raw.s
        ELSE IF safety_notes_raw.t # "none" THEN Repr(safety_notes_raw)
        ELSE IF is_safe
             THEN Msg("No safety notes provided. Please verify ingredients for allergen safety.")
             ELSE Msg("Recipe marked as unsafe but no safety notes provided.")

\* Mutation: `or` for `and`, so a key counts as missing unless its alias is
\* present too.
MissingKeysEitherAlias(output) ==
    LET has(k) == k \in DOMAIN output
    IN  (IF ~has("recipe_name") \/ ~has("title") THEN <<Msg("recipe_name")>> ELSE <<>>)
        \o (IF ~has("recipe_text") \/ ~has("text") THEN <<Msg("recipe_text")>> ELSE <<>>)
        \o (IF ~has("is_safe") THEN <<Msg("is_safe")>> ELSE <<>>)
        \o (IF ~has("safety_notes") THEN <<Msg("safety_notes")>> ELSE <<>>)

\* Mutation: the aliases are not looked at, so a payload that has "title" or
\* "text" is still reported as missing recipe_name or recipe_text.
MissingKeysNoAlias(output) ==
    LET has(k) == k \in DOMAIN output
    IN  (IF ~has("recipe_name") THEN <<Msg("recipe_name")>> ELSE <<>>)
        \o (IF ~has("recipe_text") THEN <<Msg("recipe_text")>> ELSE <<>>)
        \o (IF ~has("is_safe") THEN <<Msg("is_safe")>> ELSE <<>>)
        \o (IF ~has("safety_notes") THEN <<Msg("safety_notes")>> ELSE <<>>)

\* missing_keys, in the order the code appends them
MissingKeys(output) ==
    LET has(k) == k \in DOMAIN output
    IN  (IF ~has("recipe_name") /\ ~has("title") THEN <<Msg("recipe_name")>> ELSE <<>>)
        \o (IF ~has("recipe_text") /\ ~has("text") THEN <<Msg("recipe_text")>> ELSE <<>>)
        \o (IF ~has("is_safe") THEN <<Msg("is_safe")>> ELSE <<>>)
        \o (IF ~has("safety_notes") THEN <<Msg("safety_notes")>> ELSE <<>>)

MissingSuffix(missing_keys) ==
    IF Len(missing_keys) > 0
    THEN Msg(" [WARNING: Response missing keys: ") \o Join(missing_keys) \o Msg("]")
    ELSE <<>>

\* Lines 162-218: the extraction of the four keys from the selected payload.
ParseOutput(output) ==
    IF IsDict(output)
    THEN LET is_safe == IsSafeOf(output.d)
         IN  [recipe_name  |-> RecipeNameOf(output.d),
              recipe_text  |-> RecipeTextOf(output.d),
              is_safe      |-> PyBool(is_safe),
              safety_notes |-> PyStr(SafetyNotesOf(output.d, is_safe)
                                     \o MissingSuffix(MissingKeys(output.d)))]
    ELSE FailureRecord(Msg("Parsed output is not a dictionary. Type: ")
                       \o Msg(TypeName(output)))

\* Mutation: a "result" string is searched for an embedded object the way an
\* "output" string is.
ParseResultFieldExtracting(result_data) ==
    IF IsStr(result_data)
    THEN LET s     == Strip(result_data.s)
             first == Find(s, "{")
             last  == RFind(s, "}")
             r     == Loads(SubSeq(s, first, last))
         IN  IF first # 0 /\ last # 0 /\ last > first /\ r.ok THEN ParseOutput(r.val)
             ELSE FailureRecord(Msg("Failed to parse JSON from result string: ")
                                \o Msg("<JSONDecodeError>"))
    ELSE ParseOutput(result_data)

\* Lines 121-134: the "result" field, a JSON string or a nested value.
ParseResultField(result_data) ==
    IF IsStr(result_data)
    THEN LET r == Loads(result_data.s)
         IN  IF r.ok THEN ParseOutput(r.val)
             ELSE FailureRecord(Msg("Failed to parse JSON from result string: ")
                                \o Msg("<JSONDecodeError>"))
    ELSE ParseOutput(result_data)

\* Lines 137-159: the "output" field or the response itself; a string is
\* searched for the span from its first "{" to its last "}".
ParseOutputField(output) ==
    IF IsStr(output)
    THEN LET s     == Strip(output.s)
             first == Find(s, "{")
             last  == RFind(s, "}")
         IN  IF first # 0 /\ last # 0 /\ last > first
             THEN LET r == Loads(SubSeq(s, first, last))
                  IN  IF r.ok THEN ParseOutput(r.val)
                      ELSE FailureRecord(
                               Msg("Failed to parse JSON from agent string. Error: ")
                               \o Msg("<JSONDecodeError>")
                               \o Msg(". Content preview: ") \o Take(s, PreviewLen))
             ELSE FailureRecord(
                      Msg("No JSON object found in agent output. Content preview: ")
                      \o Take(s, PreviewLen))
    ELSE ParseOutput(output)

\* Mutation: agent_result.get("output") without the response itself as the
\* default, so a bare payload is not looked at.
ParseAgentOutputNoBareFallback(agent_result) ==
    IF ~IsDict(agent_result)
    THEN FailureRecord(Msg("Invalid agent output type: ")
                       \o Msg(TypeName(agent_result)))
    ELSE IF "result" \in DOMAIN agent_result.d
         THEN ParseResultField(agent_result.d["result"])
         ELSE ParseOutputField(Get(agent_result.d, "output"))

\* parse_agent_output(agent_result): the function from the four keys to values.
ParseAgentOutput(agent_result) ==
    IF ~IsDict(agent_result)
    THEN FailureRecord(Msg("Invalid agent output type: ")
                       \o Msg(TypeName(agent_result)))
    ELSE IF "result" \in DOMAIN agent_result.d
         THEN ParseResultField(agent_result.d["result"])
         ELSE ParseOutputField(GetDefault(agent_result.d, "output", agent_result))

ResultKeys == {"recipe_name", "recipe_text", "is_safe", "safety_notes"}

\* ------------------------------------------------------------ provider responses
\* A payload is a function from some of the keys below to values; Absent marks
\* a key the payload does not have.
Absent == [t |-> "absent"]

MkPayload(n, ti, rt, tx, sf, sn) ==
    LET opt == [recipe_name |-> n, title |-> ti, recipe_text |-> rt,
                text |-> tx, is_safe |-> sf, safety_notes |-> sn]
        keys == {k \in DOMAIN opt : opt[k].t # "absent"}
    IN  [k \in keys |-> opt[k]]

NameOpts == {Absent, Text(<<"Pesto Pasta">>), Text(<<>>), None}
TitleOpts == {Absent, Text(<<"Basil Bowl">>)}
RecipeTextOpts == {Absent, Text(<<"Blend basil with pine nuts.">>)}
TextOpts == {Absent, Text(<<"Boil the pasta.">>)}
IsSafeOpts ==
    {Absent, PyBool(TRUE), PyBool(FALSE), Text(<<"T", "R", "U", "E">>),
     Text(<<"Y", "e", "s">>), Text(<<"1">>), Text(<<"n", "o">>), PyInt(1)}
NotesOpts == {Absent, Text(<<"UNSAFE: contains pine nuts.">>), None, PyInt(7)}

Payloads ==
    {MkPayload(n, ti, rt, tx, sf, sn) :
        n \in NameOpts, ti \in TitleOpts, rt \in RecipeTextOpts,
        tx \in TextOpts, sf \in IsSafeOpts, sn \in NotesOpts}

ErrorDict(message) == PyDict([error |-> PyStr(message)])

NonDicts == {None, PyList(0), PyList(1), PyInt(5), PyBool(TRUE), Text(<<"h", "i">>)}

Values ==
    {PyDict(p) : p \in Payloads} \cup NonDicts
    \cup {ErrorDict(Msg("AIRIA_API_KEY not set in environment."))}

\* Text around an embedded JSON document: up to MaxPad characters.
PadChars == {Ch("x"), Ch(" "), Ch("{"), Ch("}")}
PadSeqs == UNION {[1..n -> PadChars] : n \in 0..MaxPad}

\* Long text: a run of one character about as long as the preview, after up
\* to MaxPad characters.
LongRuns == {[run |-> "x", n |-> k] : k \in {PreviewLen - 1, PreviewLen, PreviewLen + 1}}
LongPadSeqs == {p \o <<r>> : p \in PadSeqs, r \in LongRuns}

\* The payload a response carries beside its "result" field.
DecoyPayload ==
    [recipe_name |-> Text(<<"Decoy">>), recipe_text |-> Text(<<"Decoy text.">>),
     is_safe |-> PyBool(TRUE), safety_notes |-> Text(<<"Decoy is safe.">>)]

\* How a response is put together: the value `val` as it is ("raw"), under
\* "result", under "output", or under "result" beside an "output" decoy;
\* as a nested value ("obj"), as JSON text between `pre` and `post` ("str"),
\* or as `pre` and `post` with no JSON at all ("text"); `pre` is short or long.
ResponseShapes ==
    [wrap : {"raw"}, enc : {"obj"}, val : Values, pre : {<<>>}, post : {<<>>}]
    \cup [wrap : {"result", "output", "both"}, enc : {"obj"}, val : Values,
          pre : {<<>>}, post : {<<>>}]
    \cup [wrap : {"result", "output", "both"}, enc : {"str"}, val : Values,
          pre : PadSeqs, post : PadSeqs]
    \cup [wrap : {"result", "output", "both"}, enc : {"text"}, val : {None},
          pre : PadSeqs, post : PadSeqs]
    \cup [wrap : {"result", "output", "both"}, enc : {"str"},
          val : {PyDict(DecoyPayload), PyInt(5)}, pre : LongPadSeqs, post : PadSeqs]
    \cup [wrap : {"result", "output", "both"}, enc : {"text"}, val : {None},
          pre : LongPadSeqs, post : PadSeqs]

\* The response of a shape, as resp.json() returns it.
RawOf(shape) ==
    LET inner == CASE shape.enc = "obj"  -> shape.val
                   [] shape.enc = "str"  -> PyStr(shape.pre \o Dumps(shape.val) \o shape.post)
                   [] shape.enc = "text" -> PyStr(shape.pre \o shape.post)
    IN  CASE shape.wrap = "raw"    -> inner
          [] shape.wrap = "result" -> PyDict([result |-> inner])
          [] shape.wrap = "output" -> PyDict([output |-> inner])
          [] shape.wrap = "both"   -> PyDict([result |-> inner, output |-> PyDict(DecoyPayload)])

\* ------------------------------------------------------------ form
\* RecipeRequestForm: the posted fields, each choice and each text a
\* character sequence.
FormInputs ==
    {[cuisine_choices |-> <<>>, cuisine_other |-> <<>>,
      allergy_choices |-> <<>>, allergy_other |-> <<>>, ingredients |-> <<>>],
     [cuisine_choices |-> <<Msg("italian")>>, cuisine_other |-> Chars(<<" ">>),
      allergy_choices |-> <<Msg("nuts")>>, allergy_other |-> Msg("kiwi"),
      ingredients |-> Msg("pasta, basil")],
     [cuisine_choices |-> <<Msg("italian"), Msg("thai")>>, cuisine_other |-> Msg("fusion"),
      allergy_choices |-> <<Msg("dairy")>>, allergy_other |-> <<>>,
      ingredients |-> Msg("rice")],
     [cuisine_choices |-> <<Msg("italian"), Msg("thai"), Msg("french")>>,
      cuisine_other |-> <<>>,
      allergy_choices |-> <<>>, allergy_other |-> <<>>, ingredients |-> <<>>]}

Methods == {"GET", "POST"}

\* clean(): the checked choices followed by the stripped "other" text, if any
CombinedList(choices, other) ==
    IF Len(Strip(other)) > 0 THEN Append(choices, Strip(other)) ELSE choices

\* form.is_valid(): clean_cuisine_choices and clean both allow 2 cuisines
IsValid(data) ==
    /\ Len(data.cuisine_choices) <= 2
    /\ Len(CombinedList(data.cuisine_choices, data.cuisine_other)) <= 2

\* form.save(commit=False): the row of a cleaned form
CleanedRequest(data) ==
    [cuisine     |-> Join(CombinedList(data.cuisine_choices, data.cuisine_other)),
     allergies   |-> Join(CombinedList(data.allergy_choices, data.allergy_other)),
     ingredients |-> data.ingredients]

\* ------------------------------------------------------------ generator client
\* The JSON bodies the provider answers one POST with: a recipe it reports
\* safe, as a JSON string under "result", and one it reports unsafe, bare.
ProviderResponses ==
    {RawOf([wrap |-> "result", enc |-> "str",
            val |-> PyDict(MkPayload(Text(<<"Basil Bowl">>), Absent,
                                     Text(<<"Boil the pasta.">>), Absent,
                                     PyBool(TRUE), Text(<<"Safe for nuts.">>))),
            pre |-> <<>>, post |-> <<>>]),
     RawOf([wrap |-> "raw", enc |-> "obj",
            val |-> PyDict(MkPayload(Text(<<"Pesto Pasta">>), Absent,
                                     Text(<<"Blend basil with pine nuts.">>), Absent,
                                     PyBool(FALSE), Text(<<"UNSAFE: contains pine nuts.">>))),
            pre |-> <<>>, post |-> <<>>])}

\* What the provider does to one POST: the request fails, the status is an
\* error, the body is no JSON (the class resp.json() raises depends on the
\* installed requests), or the body decodes to a value.
ProviderOutcomes ==
    {[kind |-> "post_raises", exc |-> e] : e \in {"ConnectionError", "Timeout"}}
    \cup {[kind |-> "status", code |-> 500]}
    \cup {[kind |-> "bad_body", exc |-> e] : e \in {"RequestsJSONDecodeError", "JSONDecodeError"}}
    \cup {[kind |-> "json", val |-> v] : v \in ProviderResponses}

\* The exception classes of requests and json: issubclass(exc, base).
IsSubclass(exc, base) ==
    \/ exc = base
    \/ base = "RequestException"
       /\ exc \in {"ConnectionError", "Timeout", "HTTPError", "RequestsJSONDecodeError"}
    \/ base = "ValueError"
       /\ exc \in {"RequestsJSONDecodeError", "JSONDecodeError"}

\* What the try block of call_recipe_agent raises on an outcome ("" if nothing).
RaisedBy(o) ==
    CASE o.kind = "post_raises" -> o.exc
      [] o.kind = "status" -> IF o.code >= 400 /\ o.code < 600 THEN "HTTPError" ELSE ""
      [] o.kind = "bad_body" -> o.exc
      [] o.kind = "json" -> ""

\* str(e) of a caught exception: some non-empty message
StrOfException(e) == Msg("<exception message>")

\* The value of the `except ValueError` clause.
DecodeErrorDict ==
    PyDict([error |-> Text(<<"Failed to decode Airia JSON response">>),
            raw_text |-> Text(<<"<html>">>)])

\* Mutation: call_recipe_agent without its `except ValueError` clause.
CallRecipeAgentNoValueError(api_key, o) ==
    IF api_key = ""
    THEN [ret |-> ErrorDict(Msg("AIRIA_API_KEY not set in environment.")), posted |-> FALSE]
    ELSE LET e == RaisedBy(o)
         IN  IF e = "" THEN [ret |-> o.val, posted |-> TRUE]
             ELSE IF IsSubclass(e, "RequestException")
                  THEN [ret |-> ErrorDict(StrOfException(e)), posted |-> TRUE]
             ELSE [raised |-> e, posted |-> TRUE]

\* Mutation: the credential is looked at after the request was sent.
CallRecipeAgentKeyCheckLate(api_key, o) ==
    LET e == RaisedBy(o)
    IN  IF api_key = ""
        THEN [ret |-> ErrorDict(Msg("AIRIA_API_KEY not set in environment.")), posted |-> TRUE]
        ELSE IF e = "" THEN [ret |-> o.val, posted |-> TRUE]
        ELSE IF IsSubclass(e, "RequestException")
             THEN [ret |-> ErrorDict(StrOfException(e)), posted |-> TRUE]
        ELSE IF IsSubclass(e, "ValueError")
             THEN [ret |-> DecodeErrorDict, posted |-> TRUE]
        ELSE [raised |-> e, posted |-> TRUE]

\* call_recipe_agent: [ret |-> value] or [raised |-> exception class], and
\* whether requests.post was called
CallRecipeAgent(api_key, o) ==
    IF api_key = ""
    THEN [ret |-> ErrorDict(Msg("AIRIA_API_KEY not set in environment.")), posted |-> FALSE]
    ELSE LET e == RaisedBy(o)
         IN  IF e = "" THEN [ret |-> o.val, posted |-> TRUE]
             ELSE IF IsSubclass(e, "RequestException")
                  THEN [ret |-> ErrorDict(StrOfException(e)), posted |-> TRUE]
             ELSE IF IsSubclass(e, "ValueError")
                  THEN [ret |-> DecodeErrorDict, posted |-> TRUE]
             ELSE [raised |-> e, posted |-> TRUE]

\* The kind of error an outcome is: a transport error (the request fails or
\* the status is an error), a decoding error (the body is no JSON), or none.
ErrorKind(o) ==
    CASE o.kind \in {"post_raises", "status"} -> "transport"
      [] o.kind = "bad_body" -> "decoding"
      [] o.kind = "json" -> "none"

\* Whether call_recipe_agent reaches requests.post.
UsesNetwork(api_key) == api_key # ""

\* ------------------------------------------------------------ state
Subs == 1..NumSubs

VARIABLES
    AIRIA_API_KEY,     \* module-level configuration, read once at import
    requests,          \* RecipeRequest rows, in insertion order
    attempts,          \* GeneratedRecipe rows, in insertion order
    clock,             \* the time auto_now_add stamps on the next row
    pc,                \* where each submission is in generate_safe_recipe
    recipe_request,    \* per submission: the id of the row form.save() returned
    agent_result,      \* per submission: what call_recipe_agent returned
    parsed_result,     \* per submission: what parse_agent_output returned
    generated_recipe,  \* per submission: the id of the row create() returned
    result,            \* per submission: the result record (None on GET/invalid)
    context,           \* per submission: the result as the template renders it
    calls,             \* per submission: the calls made to call_recipe_agent
    provider,          \* per submission: the kind of error the call met
    pIn,               \* normaliser alone: the shape of the response
    pOut,              \* normaliser alone: the returned record ({} before)
    simIn,             \* simulated agents alone: the function and its arguments
    simOut             \* simulated agents alone: the returned record ({} before)

vars ==
    <<AIRIA_API_KEY, requests, attempts, clock, pc, recipe_request, agent_result,
      parsed_result, generated_recipe, result, context, calls, provider, pIn, pOut,
      simIn, simOut>>

storeVars == <<requests, attempts, clock>>
parseVars == <<pIn, pOut>>
simVars == <<simIn, simOut>>

NoOutcome == [kind |-> "none"]
NoCall == [fn |-> "none"]

\* ------------------------------------------------------------ store
\* Mutation: the id of the last row is given again, so the INSERT replaces it.
InsertRowReusingId(rows, fields, now) ==
    IF Len(rows) = 0
    THEN <<fields @@ [id |-> 1, created_at |-> now]>>
    ELSE [rows EXCEPT ![Len(rows)] = fields @@ [id |-> Len(rows), created_at |-> now]]

\* INSERT of one row: the row gets the next id and the current time.
InsertRow(rows, fields, now) ==
    Append(rows, fields @@ [id |-> Len(rows) + 1, created_at |-> now])

\* Mutation: create() without is_safe and safety_notes, which take the model's
\* defaults (False and "").
AttemptFieldsDefaults(request_id, parsed) ==
    [request      |-> request_id,
     recipe_name  |-> parsed.recipe_name,
     recipe_text  |-> parsed.recipe_text,
     is_safe      |-> PyBool(FALSE),
     safety_notes |-> PyStr(<<>>)]

\* GeneratedRecipe.objects.create(request=..., recipe_name=..., ...)
AttemptFields(request_id, parsed) ==
    [request      |-> request_id,
     recipe_name  |-> parsed.recipe_name,
     recipe_text  |-> parsed.recipe_text,
     is_safe      |-> parsed.is_safe,
     safety_notes |-> parsed.safety_notes]

\* Mutation: GeneratedRecipe.objects.all(), the rows of every request.
GeneratedRecipesOfAll(rows, request_id) == DOMAIN rows

\* recipe_request.generated_recipes.all(): the rows of one request
GeneratedRecipesOf(rows, request_id) ==
    {i \in DOMAIN rows : rows[i].request = request_id}

\* .order_by("created_at") of a set of row ids, as the sequence of rows
RECURSIVE OrderByCreatedAt(_, _)
OrderByCreatedAt(rows, ids) ==
    IF ids = {} THEN <<>>
    ELSE LET first == CHOOSE i \in ids :
                          \A j \in ids :
                              \/ rows[i].created_at < rows[j].created_at
                              \/ rows[i].created_at = rows[j].created_at /\ i <= j
         IN  <<rows[first]>> \o OrderByCreatedAt(rows, ids \ {first})

\* Mutation: the result record built with the name and text of the row but
\* the verdict left at the fail-closed default.
ResultRecordDefaultVerdict(row, request_id) ==
    [t            |-> "result",
     recipe_name  |-> row.recipe_name,
     recipe_text  |-> row.recipe_text,
     is_safe      |-> PyBool(FALSE),
     safety_notes |-> row.safety_notes,
     all_attempts |-> request_id]

\* The result record of lines 261-267; all_attempts is a lazy QuerySet, so
\* only the request it filters on is fixed here.
ResultRecord(row, request_id) ==
    [t            |-> "result",
     recipe_name  |-> row.recipe_name,
     recipe_text  |-> row.recipe_text,
     is_safe      |-> row.is_safe,
     safety_notes |-> row.safety_notes,
     all_attempts |-> request_id]

\* ------------------------------------------------------------ generate_safe_recipe
Init ==
    /\ AIRIA_API_KEY \in {"", "secret"}
    /\ requests = <<>>
    /\ attempts = <<>>
    /\ clock = 1
    /\ pc = [s \in Subs |-> "idle"]
    /\ recipe_request = [s \in Subs |-> 0]
    /\ agent_result = [s \in Subs |-> None]
    /\ parsed_result = [s \in Subs |-> None]
    /\ generated_recipe = [s \in Subs |-> 0]
    /\ result = [s \in Subs |-> None]
    /\ context = [s \in Subs |-> None]
    /\ calls = [s \in Subs |-> <<>>]
    /\ provider = [s \in Subs |-> NoOutcome]
    /\ pIn = [wrap |-> "raw", enc |-> "obj", val |-> None, pre |-> <<>>, post |-> <<>>]
    /\ pOut = {}
    /\ simIn = NoCall
    /\ simOut = {}

\* Lines 226-229 when the request is a GET or the form is invalid: no row is
\* written and result stays None.
SubmitWithoutResult(s) ==
    /\ pc[s] = "idle"
    /\ \E method \in Methods, data \in FormInputs :
           ~(method = "POST" /\ IsValid(data))
    /\ pc' = [pc EXCEPT ![s] = "render"]
    /\ UNCHANGED <<AIRIA_API_KEY, storeVars, recipe_request, agent_result, parsed_result,
                   generated_recipe, result, context, calls, provider, parseVars, simVars>>

\* Lines 229-239: a valid POST; form.save() inserts the RecipeRequest.
SubmitValid(s) ==
    /\ pc[s] = "idle"
    /\ \E data \in FormInputs :
           /\ IsValid(data)
           /\ requests' = InsertRow(requests, CleanedRequest(data), clock)
    /\ clock' = clock + 1
    /\ recipe_request' = [recipe_request EXCEPT ![s] = Len(requests')]
    /\ pc' = [pc EXCEPT ![s] = "saved"]
    /\ UNCHANGED <<AIRIA_API_KEY, attempts, agent_result, parsed_result,
                   generated_recipe, result, context, calls, provider, parseVars, simVars>>

\* Mutation: a retry loop with no budget: the generator is called again
\* after every unsafe attempt.
GenerateAttemptRetryLoop(s) ==
    /\ pc[s] = "saved"
    /\ \E o \in ProviderOutcomes :
           LET r == CallRecipeAgent(AIRIA_API_KEY, o)
           IN  /\ provider' = [provider EXCEPT ![s] =
                                 IF UsesNetwork(AIRIA_API_KEY) THEN [kind |-> ErrorKind(o)]
                                 ELSE [kind |-> "configuration"]]
               /\ calls' = [calls EXCEPT ![s] =
                              Append(@, [previous_error |-> <<>>, network |-> r.posted])]
               /\ IF "ret" \in DOMAIN r
                  THEN LET parsed == ParseAgentOutput(r.ret)
                       IN  /\ agent_result' = [agent_result EXCEPT ![s] = r.ret]
                           /\ parsed_result' = [parsed_result EXCEPT ![s] = PyDict(parsed)]
                           /\ attempts' = InsertRow(attempts,
                                              AttemptFields(recipe_request[s], parsed), clock)
                           /\ clock' = clock + 1
                           /\ generated_recipe' = [generated_recipe EXCEPT ![s] = Len(attempts')]
                           /\ result' = [result EXCEPT ![s] =
                                   ResultRecord(attempts'[Len(attempts')], recipe_request[s])]
                           /\ pc' = [pc EXCEPT ![s] =
                                       IF parsed.is_safe.b THEN "render" ELSE "saved"]
                  ELSE /\ pc' = [pc EXCEPT ![s] = "raised"]
                       /\ UNCHANGED <<agent_result, parsed_result, attempts, clock,
                                      generated_recipe, result>>
    /\ UNCHANGED <<AIRIA_API_KEY, requests, recipe_request, context, parseVars, simVars>>

\* Lines 242-267: call_recipe_agent(cuisine, allergies, ingredients) with
\* previous_error at its default "", parse_agent_output,
\* GeneratedRecipe.objects.create and the result record built from the
\* created row.  The call and the parse touch nothing shared, so the step is
\* one with the INSERT that follows them; an exception call_recipe_agent
\* does not catch leaves the view ("raised").
GenerateAttempt(s) ==
    /\ pc[s] = "saved"
    /\ \E o \in ProviderOutcomes :
           LET r == CallRecipeAgent(AIRIA_API_KEY, o)
           IN  /\ provider' = [provider EXCEPT ![s] =
                                 IF UsesNetwork(AIRIA_API_KEY) THEN [kind |-> ErrorKind(o)]
                                 ELSE [kind |-> "configuration"]]
               /\ calls' = [calls EXCEPT ![s] =
                              Append(@, [previous_error |-> <<>>, network |-> r.posted])]
               /\ IF "ret" \in DOMAIN r
                  THEN LET parsed == ParseAgentOutput(r.ret)
                       IN  /\ agent_result' = [agent_result EXCEPT ![s] = r.ret]
                           /\ parsed_result' = [parsed_result EXCEPT ![s] = PyDict(parsed)]
                           /\ attempts' = InsertRow(attempts,
                                              AttemptFields(recipe_request[s], parsed), clock)
                           /\ clock' = clock + 1
                           /\ generated_recipe' = [generated_recipe EXCEPT ![s] = Len(attempts')]
                           /\ result' = [result EXCEPT ![s] =
                                   ResultRecord(attempts'[Len(attempts')], recipe_request[s])]
                           /\ pc' = [pc EXCEPT ![s] = "render"]
                  ELSE /\ pc' = [pc EXCEPT ![s] = "raised"]
                       /\ UNCHANGED <<agent_result, parsed_result, attempts, clock,
                                      generated_recipe, result>>
    /\ UNCHANGED <<AIRIA_API_KEY, requests, recipe_request, context, parseVars, simVars>>

\* Line 269: render; the template iterates result.all_attempts, which runs
\* the query now.
Render(s) ==
    /\ pc[s] = "render"
    /\ context' = [context EXCEPT ![s] =
                     IF result[s].t = "result"
                     THEN [result[s] EXCEPT !.all_attempts =
                              OrderByCreatedAt(attempts,
                                  GeneratedRecipesOf(attempts, result[s].all_attempts))]
                     ELSE None]
    /\ pc' = [pc EXCEPT ![s] = "done"]
    /\ UNCHANGED <<AIRIA_API_KEY, storeVars, recipe_request, agent_result, parsed_result,
                   generated_recipe, result, calls, provider, parseVars, simVars>>

Next ==
    \E s \in Subs :
        \/ SubmitWithoutResult(s)
        \/ SubmitValid(s)
        \/ GenerateAttempt(s)
        \/ Render(s)

Spec == Init /\ [][Next]_vars

\* ------------------------------------------------------------ normaliser alone
\* parse_agent_output applied to every response shape.
InitParse ==
    /\ AIRIA_API_KEY = "secret"
    /\ requests = <<>>
    /\ attempts = <<>>
    /\ clock = 1
    /\ pc = [s \in Subs |-> "idle"]
    /\ recipe_request = [s \in Subs |-> 0]
    /\ agent_result = [s \in Subs |-> None]
    /\ parsed_result = [s \in Subs |-> None]
    /\ generated_recipe = [s \in Subs |-> 0]
    /\ result = [s \in Subs |-> None]
    /\ context = [s \in Subs |-> None]
    /\ calls = [s \in Subs |-> <<>>]
    /\ provider = [s \in Subs |-> NoOutcome]
    /\ pIn \in ResponseShapes
    /\ pOut = {}
    /\ simIn = NoCall
    /\ simOut = {}

Normalise ==
    /\ pOut = {}
    /\ pOut' = {ParseAgentOutput(RawOf(pIn))}
    /\ UNCHANGED <<AIRIA_API_KEY, storeVars, pc, recipe_request, agent_result,
                   parsed_result, generated_recipe, result, context, calls, provider, pIn,
                   simVars>>

NextParse == Normalise

SpecParse == InitParse /\ [][NextParse]_vars

\* ------------------------------------------------------------ simulated agents
\* _simulate_inspector_agent and _simulate_chef_agent, which tests.py imports
\* from views: views.py does not define them, so they are written here from
\* sections 4.1 and 4.2 of the specification.  Their arguments are strings,
\* one character per element.

\* Most comma-separated entries in an allergy text.
MaxTokens == 2
\* Highest attempt number passed to the fallback generator.
MaxAttempt == 3

NutsWord == Chars(<<"n", "u", "t", "s">>)
PestoWord == Chars(<<"p", "e", "s", "t", "o">>)
PineNuts == Chars(<<"p", "i", "n", "e", " ", "n", "u", "t", "s">>)
SafeWord == Chars(<<"S", "a", "f", "e">>)
PestoPasta == Chars(<<"P", "e", "s", "t", "o", " ", "P", "a", "s", "t", "a">>)

\* text.split(sep)
RECURSIVE Split(_, _)
Split(s, sep) ==
    LET at == Find(s, sep)
    IN  IF at = 0 THEN <<s>>
        ELSE <<SubSeq(s, 1, at - 1)>> \o Split(SubSeq(s, at + 1, Len(s)), sep)

\* sub in s
Contains(s, sub) ==
    \E i \in 1..(Len(s) - Len(sub) + 1) : SubSeq(s, i, i + Len(sub) - 1) = sub

\* The trimmed, non-empty entries of a comma-separated text, in order.
Entries(text) ==
    LET parts == Split(text, ",")
    IN  SelectSeq([i \in DOMAIN parts |-> Strip(parts[i])], LAMBDA t : t # <<>>)

\* Mutation: the allergy entries are compared as typed, not lowercased.
AllergyTokensCaseSensitive(allergies) ==
    {Entries(allergies)[i] : i \in DOMAIN Entries(allergies)}

\* The set of lowercase, trimmed, non-empty allergy tokens.
AllergyTokens(allergies) ==
    {Lower(Entries(allergies)[i]) : i \in DOMAIN Entries(allergies)}

\* Mutation: the recipe is looked at before the allergy list, so a pesto is
\* unsafe even when no allergy is given.
SimulateInspectorAgentRecipeFirst(recipe_name, recipe_text, allergies) ==
    IF Contains(Lower(recipe_name), PestoWord)
    THEN [is_safe |-> PyBool(FALSE),
          safety_notes |-> PyStr(Msg("UNSAFE") \o Msg(": pesto contains ") \o PineNuts
                                 \o Msg("."))]
    ELSE IF Contains(Lower(recipe_text), PineNuts)
    THEN [is_safe |-> PyBool(FALSE),
          safety_notes |-> PyStr(Msg("UNSAFE") \o Msg(": the recipe lists ") \o PineNuts
                                 \o Msg("."))]
    ELSE [is_safe |-> PyBool(TRUE),
          safety_notes |-> Text(<<"Recipe appears safe for the listed allergies.">>)]

\* Section 4.1, evaluate(recipeName, recipeText, allergyText)
SimulateInspectorAgent(recipe_name, recipe_text, allergies) ==
    LET tokens == AllergyTokens(allergies)
    IN  IF tokens = {}
        THEN [is_safe |-> PyBool(TRUE),
              safety_notes |-> Text(<<"No allergy restrictions specified.">>)]
        ELSE IF NutsWord \in tokens /\ Contains(Lower(recipe_name), PestoWord)
        THEN [is_safe |-> PyBool(FALSE),
              safety_notes |-> PyStr(Msg("UNSAFE") \o Msg(": pesto contains ") \o PineNuts
                                     \o Msg("."))]
        ELSE IF NutsWord \in tokens /\ Contains(Lower(recipe_text), PineNuts)
        THEN [is_safe |-> PyBool(FALSE),
              safety_notes |-> PyStr(Msg("UNSAFE") \o Msg(": the recipe lists ") \o PineNuts
                                     \o Msg("."))]
        ELSE [is_safe |-> PyBool(TRUE),
              safety_notes |-> Text(<<"Recipe appears safe for the listed allergies.">>)]

\* The named-safe recipe of section 4.2: up to 3 of the ingredients (or the
\* default phrase) and the cuisine (or a generic phrase).
SafeRecipe(cuisine, ingredients) ==
    LET listed == Entries(ingredients)
        main   == IF Len(listed) = 0 THEN Msg("seasonal vegetables")
                  ELSE Join(SubSeq(listed, 1, IF Len(listed) < 3 THEN Len(listed) ELSE 3))
        c      == Strip(cuisine)
    IN  [recipe_name |-> PyStr(SafeWord \o Msg(" ")
                               \o (IF c = <<>> THEN <<>> ELSE c \o Msg(" "))
                               \o Msg("Delight")),
         recipe_text |-> PyStr(Msg("A ") \o (IF c = <<>> THEN Msg("simple") ELSE c)
                               \o Msg(" dish made with ") \o main \o Msg("."))]

\* The known-unsafe fixture of section 4.2.
UnsafeFixture ==
    [recipe_name |-> PyStr(PestoPasta),
     recipe_text |-> PyStr(Msg("Toss pasta with ") \o PestoWord
                           \o Msg(" made from basil and ") \o PineNuts \o Msg("."))]

\* Mutation: the attempt number is not looked at.
SimulateChefAgentEveryAttempt(cuisine, allergies, ingredients, attempt) ==
    IF NutsWord \in AllergyTokens(allergies)
    THEN UnsafeFixture
    ELSE SafeRecipe(cuisine, ingredients)

\* Section 4.2, the deterministic local fallback
SimulateChefAgent(cuisine, allergies, ingredients, attempt) ==
    IF attempt = 1 /\ NutsWord \in AllergyTokens(allergies)
    THEN UnsafeFixture
    ELSE SafeRecipe(cuisine, ingredients)

\* The arguments the agents are called with.
RECURSIVE CommaList(_)
CommaList(ts) ==
    IF Len(ts) = 1 THEN ts[1] ELSE ts[1] \o <<Ch(",")>> \o CommaList(Tail(ts))

TokenTexts ==
    {NutsWord, Chars(<<" ">>) \o NutsWord \o Chars(<<" ", " ">>),
     Chars(<<"N", "U", "T", "S">>), Chars(<<"d", "a", "i", "r", "y">>),
     Chars(<<"c", "o", "c", "o", "n", "u", "t", "s">>), <<>>, Chars(<<" ">>)}
AllergyTexts ==
    {CommaList(ts) : ts \in UNION {[1..n -> TokenTexts] : n \in 1..MaxTokens}}
RecipeNames ==
    {PestoPasta, Chars(<<"P", "E", "S", "T", "O">>), Chars(<<"S", "o", "u", "p">>)}
RecipeTexts ==
    {Chars(<<"A", "d", "d", " ">>) \o PineNuts,
     Chars(<<"P", "I", "N", "E", " ", "N", "U", "T", "S">>),
     Chars(<<"p", "i", "n", "e", "n", "u", "t", "s">>),
     Chars(<<"B", "o", "i", "l">>)}
Cuisines == {<<>>, Chars(<<"T", "h", "a", "i">>), PineNuts}
IngredientTexts ==
    {<<>>, Chars(<<" ">>), Chars(<<"r", "i", "c", "e">>),
     CommaList(<<PineNuts, Chars(<<" ", "r", "i", "c", "e">>)>>),
     CommaList(<<Chars(<<"a">>), Chars(<<"b">>), Chars(<<"c">>), PineNuts>>)}
SimInputs ==
    [fn : {"inspector"}, recipe_name : RecipeNames, recipe_text : RecipeTexts,
     allergies : AllergyTexts]
    \cup [fn : {"chef"}, cuisine : Cuisines, allergies : AllergyTexts,
          ingredients : IngredientTexts, attempt : 1..MaxAttempt]

InitSim ==
    /\ AIRIA_API_KEY = "secret"
    /\ requests = <<>>
    /\ attempts = <<>>
    /\ clock = 1
    /\ pc = [s \in Subs |-> "idle"]
    /\ recipe_request = [s \in Subs |-> 0]
    /\ agent_result = [s \in Subs |-> None]
    /\ parsed_result = [s \in Subs |-> None]
    /\ generated_recipe = [s \in Subs |-> 0]
    /\ result = [s \in Subs |-> None]
    /\ context = [s \in Subs |-> None]
    /\ calls = [s \in Subs |-> <<>>]
    /\ provider = [s \in Subs |-> NoOutcome]
    /\ pIn = [wrap |-> "raw", enc |-> "obj", val |-> None, pre |-> <<>>, post |-> <<>>]
    /\ pOut = {}
    /\ simIn \in SimInputs
    /\ simOut = {}

CallInspector ==
    /\ simIn.fn = "inspector"
    /\ simOut = {}
    /\ simOut' = {SimulateInspectorAgent(simIn.recipe_name, simIn.recipe_text,
                                         simIn.allergies)}
    /\ UNCHANGED <<AIRIA_API_KEY, storeVars, pc, recipe_request, agent_result,
                   parsed_result, generated_recipe, result, context, calls, provider,
                   parseVars, simIn>>

CallChef ==
    /\ simIn.fn = "chef"
    /\ simOut = {}
    /\ simOut' = {SimulateChefAgent(simIn.cuisine, simIn.allergies,
                                    simIn.ingredients, simIn.attempt)}
    /\ UNCHANGED <<AIRIA_API_KEY, storeVars, pc, recipe_request, agent_result,
                   parsed_result, generated_recipe, result, context, calls, provider,
                   parseVars, simIn>>

NextSim == CallInspector \/ CallChef

SpecSim == InitSim /\ [][NextSim]_vars

\* ------------------------------------------------------------ properties
\* The rows of the request of submission s, and the first and last of them.
AttemptsOfSub(s) == {i \in DOMAIN attempts : attempts[i].request = recipe_request[s]}
FirstAttempt(s) == attempts[CHOOSE i \in AttemptsOfSub(s) : \A j \in AttemptsOfSub(s) : i <= j]
LastAttempt(s) == attempts[CHOOSE i \in AttemptsOfSub(s) : \A j \in AttemptsOfSub(s) : j <= i]
\* Submission s was a valid POST.
IsValidSubmission(s) == recipe_request[s] # 0
\* Submission s has returned its response.
Completed(s) == pc[s] = "done"
\* A value of the shape {"error": message}.
IsErrorValue(v) == IsDict(v) /\ "error" \in DOMAIN v.d
\* The four fields of two records agree.
SameFields(a, b) == \A k \in ResultKeys : a[k] = b[k]

\* C1: a valid submission whose first attempt is unsafe calls the generator a
\* second time with the first attempt's safety note as previous_error,
\* persists a second attempt for the same request and returns that second
\* attempt as the final result.
C1_UnsafeFirstAttemptIsRetried ==
    \A s \in Subs :
        (Completed(s) /\ IsValidSubmission(s) /\ AttemptsOfSub(s) # {}
         /\ FirstAttempt(s).is_safe = PyBool(FALSE))
        => /\ Len(calls[s]) = 2
           /\ calls[s][2].previous_error = FirstAttempt(s).safety_notes.s
           /\ Cardinality(AttemptsOfSub(s)) = 2
           /\ context[s].t = "result"
           /\ SameFields(context[s], LastAttempt(s))

\* C2: a valid submission whose first attempt is judged safe ends after exactly
\* one generator call, with exactly one attempt persisted for its request,
\* and the result returned is that attempt.
C2_SafeFirstAttemptIsAccepted ==
    \A s \in Subs :
        (Completed(s) /\ IsValidSubmission(s) /\ parsed_result[s].t = "dict"
         /\ parsed_result[s].d.is_safe = PyBool(TRUE))
        => /\ Len(calls[s]) = 1
           /\ Cardinality(AttemptsOfSub(s)) = 1
           /\ FirstAttempt(s).is_safe = PyBool(TRUE)
           /\ context[s].t = "result"
           /\ SameFields(context[s], FirstAttempt(s))
           /\ Len(context[s].all_attempts) = 1
           /\ context[s].all_attempts[1] = FirstAttempt(s)

C2_Witness ==
    \E s \in Subs :
        /\ Completed(s) /\ IsValidSubmission(s)
        /\ parsed_result[s].t = "dict"
        /\ parsed_result[s].d.is_safe = PyBool(TRUE)
        /\ Len(attempts) > 1

\* C3: every request owns at most two attempts and a submission makes at
\* most two generator calls; once a second attempt exists the submission
\* calls the generator no more, whatever the verdict.
C3_AtMostTwoAttempts ==
    /\ \A r \in DOMAIN requests :
           Cardinality({i \in DOMAIN attempts : attempts[i].request = r}) <= 2
    /\ \A s \in Subs :
           /\ Len(calls[s]) <= 2
           /\ Cardinality(AttemptsOfSub(s)) >= 2 => pc[s] \in {"render", "done"}

C3_Witness ==
    \E s \in Subs :
        /\ Completed(s) /\ IsValidSubmission(s)
        /\ Cardinality(AttemptsOfSub(s)) = 1
        /\ LastAttempt(s).is_safe = PyBool(FALSE)
        /\ Len(calls[s]) = 1

\* C4: every generator call of a submission is followed by the creation of
\* exactly one attempt owned by the submission's request, whose four fields
\* are the normalised result of that call, whatever the verdict and whether
\* the call returned a recipe or an error value; a completed valid
\* submission leaves its request with at least one attempt.
C4_EveryCallIsPersisted ==
    \A s \in Subs :
        IsValidSubmission(s) =>
            /\ pc[s] \in {"saved", "render", "done"}
            /\ Cardinality(AttemptsOfSub(s)) = Len(calls[s])
            /\ pc[s] = "render" =>
                   parsed_result[s] = PyDict(ParseAgentOutput(agent_result[s]))
            /\ pc[s] \in {"render", "done"} =>
                   /\ Cardinality(AttemptsOfSub(s)) >= 1
                   /\ generated_recipe[s] \in AttemptsOfSub(s)
                   /\ SameFields(attempts[generated_recipe[s]], parsed_result[s].d)

C4_Witness ==
    \E s, u \in Subs :
        /\ Completed(s) /\ IsValidSubmission(s)
        /\ Completed(u) /\ IsValidSubmission(u)
        /\ IsErrorValue(agent_result[s])
        /\ LastAttempt(s).is_safe = PyBool(FALSE)
        /\ LastAttempt(u).is_safe = PyBool(TRUE)

C6_ResultIsLastAttemptWithOwnHistory ==
    \A s \in Subs :
        (Completed(s) /\ IsValidSubmission(s)) =>
            /\ context[s].t = "result"
            /\ SameFields(context[s], LastAttempt(s))
            /\ LET all == context[s].all_attempts
               IN  /\ \A i \in DOMAIN all : all[i].request = recipe_request[s]
                   /\ {all[i].id : i \in DOMAIN all} = AttemptsOfSub(s)
                   /\ \A i \in DOMAIN all : all[i] = attempts[all[i].id]
                   /\ \A i, j \in DOMAIN all :
                          i < j => all[i].created_at < all[j].created_at

C6_Witness ==
    \E s \in Subs :
        /\ Completed(s) /\ IsValidSubmission(s)
        /\ Len(context[s].all_attempts) = 1
        /\ Len(attempts) > 1
        /\ context[s].all_attempts[1].id > 1

\* C7: under any interleaving each submission creates exactly one request
\* and attaches its attempts to that request only, and the store is
\* append-only: no step changes or removes a row that exists.
RowsOfOwnRequestOnly ==
    /\ \A s, u \in Subs :
           (s # u /\ IsValidSubmission(s) /\ IsValidSubmission(u))
           => recipe_request[s] # recipe_request[u]
    /\ Len(requests) = Cardinality({s \in Subs : IsValidSubmission(s)})
    /\ Len(attempts) = Cardinality({s \in Subs : generated_recipe[s] # 0})
    /\ \A s \in Subs :
           generated_recipe[s] # 0 =>
               /\ generated_recipe[s] \in DOMAIN attempts
               /\ attempts[generated_recipe[s]].request = recipe_request[s]
    /\ \A s, u \in Subs :
           (s # u /\ generated_recipe[s] # 0) => generated_recipe[s] # generated_recipe[u]

AppendOnlyStep ==
    /\ \A i \in DOMAIN requests : i \in DOMAIN requests' /\ requests'[i] = requests[i]
    /\ \A i \in DOMAIN attempts : i \in DOMAIN attempts' /\ attempts'[i] = attempts[i]

C7_AppendOnlyStore == []RowsOfOwnRequestOnly /\ [][AppendOnlyStep]_vars

C7_Witness ==
    /\ Len(requests) = 2
    /\ Len(attempts) = 2
    /\ attempts[1].request = 2
    /\ attempts[2].request = 1
    /\ \A s \in Subs : s <= 2 => Completed(s)

\* The record parse_agent_output returned.
Out == CHOOSE o \in pOut : TRUE
Normalised == pOut # {}

\* The spellings of is_safe among the responses that mean True: the boolean
\* true and the strings that are "true", "yes" or "1" in some case.
SafeSpellings ==
    {PyBool(TRUE), Text(<<"T", "R", "U", "E">>), Text(<<"Y", "e", "s">>), Text(<<"1">>)}

\* C8: parse_agent_output fails closed: is_safe is returned true only if a
\* structured payload is carried and its is_safe is the boolean true or a
\* string spelling true, yes or 1; a non-dict response, a text with no JSON, a
\* non-dict payload, an absent is_safe and any other is_safe value give false.
C8_FailsClosed ==
    Normalised =>
        /\ Out.is_safe \in {PyBool(TRUE), PyBool(FALSE)}
        /\ Out.is_safe = PyBool(TRUE) =>
               /\ pIn.enc # "text"
               /\ IsDict(pIn.val)
               /\ "is_safe" \in DOMAIN pIn.val.d
               /\ pIn.val.d.is_safe \in SafeSpellings

C8_Witness ==
    /\ Normalised
    /\ pIn.wrap = "both"
    /\ pIn.enc = "obj"
    /\ IsDict(pIn.val)
    /\ "is_safe" \in DOMAIN pIn.val.d
    /\ pIn.val.d.is_safe = PyInt(1)
    /\ Out.is_safe = PyBool(FALSE)

\* C9: parse_agent_output is total: for every response it returns a record
\* with exactly the four keys, is_safe a boolean, and recipe_name and
\* recipe_text neither empty nor absent.
C9_TotalCanonicalShape ==
    Normalised =>
        /\ DOMAIN Out = ResultKeys
        /\ IsBool(Out.is_safe)
        /\ IsStr(Out.safety_notes)
        /\ Out.recipe_name.t # "none" /\ Truthy(Out.recipe_name)
        /\ Out.recipe_text.t # "none" /\ Truthy(Out.recipe_text)

C9_Witness ==
    /\ Normalised
    /\ pIn.wrap = "result"
    /\ pIn.enc = "str"
    /\ pIn.pre = <<>> /\ pIn.post = <<>>
    /\ IsDict(pIn.val)
    /\ "recipe_name" \in DOMAIN pIn.val.d
    /\ pIn.val.d.recipe_name = Text(<<>>)
    /\ "title" \notin DOMAIN pIn.val.d
    /\ Out.recipe_name = DefaultRecipeName

\* Whether the code reaches the payload of a shape: a nested value always, a
\* JSON string under "result" with nothing but whitespace around it, a JSON
\* string under "output" with no "{" before it and no "}" after it.
HasChar(s, c) == \E i \in DOMAIN s : s[i] = Ch(c)
AllSpaces(s) == \A i \in DOMAIN s : s[i] = Ch(" ")
Extractable(shape) ==
    /\ IsDict(shape.val)
    /\ \/ shape.enc = "obj"
       \/ shape.enc = "str" /\ shape.wrap \in {"result", "both"}
          /\ AllSpaces(shape.pre) /\ AllSpaces(shape.post)
       \/ shape.enc = "str" /\ shape.wrap = "output"
          /\ ~HasChar(shape.pre, "{") /\ ~HasChar(shape.post, "}")

HasCanonicalKeys(shape) == Extractable(shape) /\ ResultKeys \subseteq DOMAIN shape.val.d

\* C10 as stated: a payload with all four canonical keys is returned with
\* those four values unchanged.
C10_CanonicalPayloadUnchanged ==
    (Normalised /\ HasCanonicalKeys(pIn)) => SameFields(Out, pIn.val.d)

\* C10 as amended: a payload with all four canonical keys whose recipe_name and
\* recipe_text are non-empty, whose is_safe is a boolean and whose
\* safety_notes is a string is returned with those four values unchanged.
C10_WellTypedCanonicalPayloadUnchanged ==
    (/\ Normalised
     /\ HasCanonicalKeys(pIn)
     /\ Truthy(pIn.val.d.recipe_name)
     /\ Truthy(pIn.val.d.recipe_text)
     /\ IsBool(pIn.val.d.is_safe)
     /\ IsStr(pIn.val.d.safety_notes))
    => SameFields(Out, pIn.val.d)

C10_Witness ==
    /\ Normalised
    /\ HasCanonicalKeys(pIn)
    /\ pIn.wrap = "output" /\ pIn.enc = "str" /\ pIn.pre = Chars(<<"x">>)
    /\ Truthy(pIn.val.d.recipe_name)
    /\ Truthy(pIn.val.d.recipe_text)
    /\ pIn.val.d.is_safe = PyBool(TRUE)
    /\ IsStr(pIn.val.d.safety_notes)
    /\ DOMAIN pIn.val.d = ResultKeys
    /\ SameFields(Out, pIn.val.d)

\* The expected keys a payload lacks, an alias standing in for its key.
AbsentExpected(payload) ==
    {k \in ResultKeys :
        /\ k \notin DOMAIN payload
        /\ k = "recipe_name" => "title" \notin DOMAIN payload
        /\ k = "recipe_text" => "text" \notin DOMAIN payload}

\* Where the missing-key suffix starts in a note (0 if there is none), and
\* the keys the note names after that point.
WarningMark == Ch(" [WARNING: Response missing keys: ")
WarningAt(notes) ==
    IF \E i \in DOMAIN notes : notes[i] = WarningMark
    THEN CHOOSE i \in DOMAIN notes : notes[i] = WarningMark
    ELSE 0
NamedKeys(notes) ==
    {k \in ResultKeys :
        \E i \in DOMAIN notes : i > WarningAt(notes) /\ notes[i] = Ch(k)}

\* C11: for every structured payload the returned safety_notes names exactly
\* the expected keys the payload lacks, recipe_name counting as present when
\* title is and recipe_text when text is; the names come once each, after the
\* payload's own note, and a payload that lacks none gets no suffix at all.
C11_NotesNameExactlyTheMissingKeys ==
    (Normalised /\ Extractable(pIn)) =>
        LET notes  == Out.safety_notes.s
            absent == AbsentExpected(pIn.val.d)
            at     == WarningAt(notes)
        IN  /\ (absent = {}) <=> (at = 0)
            /\ at # 0 =>
                   /\ NamedKeys(notes) = absent
                   /\ Cardinality({i \in DOMAIN notes : i > at /\ notes[i] # Ch(", ")})
                          = Cardinality(absent) + 1
                   /\ notes[Len(notes)] = Ch("]")

C11_Witness ==
    /\ Normalised
    /\ Extractable(pIn)
    /\ pIn.wrap = "output" /\ pIn.enc = "str"
    /\ DOMAIN pIn.val.d = {"title", "recipe_text", "safety_notes"}
    /\ NamedKeys(Out.safety_notes.s) = {"is_safe"}
    /\ WarningAt(Out.safety_notes.s) = 2

\* The value a response carries under "result" or "output".
PayloadValue(shape) ==
    RawOf(shape).d[IF shape.wrap = "output" THEN "output" ELSE "result"]
PayloadString(shape) == PayloadValue(shape).s

\* A text that is one JSON object: braces around nothing or around members.
IsObjectText(t) ==
    /\ Len(t) >= 2 /\ t[1] = Ch("{") /\ t[Len(t)] = Ch("}")
    /\ \/ \A k \in 2..(Len(t) - 1) : t[k] = Ch(" ")
       \/ Len(t) = 3 /\ DOMAIN t[2] = {"m"}
\* The payload is a string the code gets no JSON object out of: under "result"
\* the string is not an object, under "output" the stretch from its first "{"
\* to its last "}" is not one.
UnparsableString(shape) ==
    /\ shape.wrap # "raw"
    /\ IsStr(PayloadValue(shape))
    /\ LET s == Strip(PayloadString(shape))
       IN  IF shape.wrap = "output"
           THEN ~\E i, j \in DOMAIN s :
                    /\ s[i] = Ch("{") /\ \A k \in 1..(i - 1) : s[k] # Ch("{")
                    /\ s[j] = Ch("}") /\ \A k \in (j + 1)..Len(s) : s[k] # Ch("}")
                    /\ i < j
                    /\ IsObjectText(SubSeq(s, i, j))
           ELSE ~IsObjectText(s)

\* p is the start of raw, truncated to the preview length: every chunk of p
\* is the chunk of raw at its place, the last one possibly cut short.
IsCutOf(a, b) ==
    \/ DOMAIN a = {"cut", "n"} /\ a.cut = b /\ a.n < Width(b)
    \/ DOMAIN a = {"run", "n"} /\ DOMAIN b = {"run", "n"} /\ a.run = b.run /\ a.n < b.n
IsPreviewOf(p, raw) ==
    /\ Len(p) <= Len(raw)
    /\ \A i \in DOMAIN p : p[i] = raw[i] \/ (i = Len(p) /\ IsCutOf(p[i], raw[i]))
    /\ TextWidth(p) = (IF TextWidth(raw) < PreviewLen THEN TextWidth(raw) ELSE PreviewLen)
\* Some stretch of the note is that preview, of the content as it is or stripped.
ContainsPreview(notes, raw) ==
    \E i \in 1..(Len(notes) + 1), j \in 0..Len(notes) :
        \/ IsPreviewOf(SubSeq(notes, i, j), raw)
        \/ IsPreviewOf(SubSeq(notes, i, j), Strip(raw))

\* C12 as stated: a result or output string that cannot be parsed into a JSON
\* object gives is_safe false and a note that contains a preview of the
\* content truncated to at most 200 characters.
C12_UnparsableStringIsPreviewed ==
    (Normalised /\ UnparsableString(pIn)) =>
        /\ Out.is_safe = PyBool(FALSE)
        /\ ContainsPreview(Out.safety_notes.s, PayloadString(pIn))

\* C12 as amended: such a string gives is_safe false; under "output" (no
\* "result" key in the response) the note is the failure message followed by
\* the stripped content truncated to at most 200 characters; under "result"
\* the note is the failure message alone, without a preview.
C12_UnparsableOutputStringIsPreviewed ==
    (Normalised /\ UnparsableString(pIn)) =>
        LET notes == Out.safety_notes.s
        IN  /\ Out.is_safe = PyBool(FALSE)
            /\ Out.recipe_name = DefaultRecipeName
            /\ Out.recipe_text = DefaultRecipeText
            /\ pIn.wrap = "output" =>
                   /\ \/ notes[1] = Ch("No JSON object found in agent output. Content preview: ")
                      \/ /\ notes[1] = Ch("Failed to parse JSON from agent string. Error: ")
                         /\ notes[3] = Ch(". Content preview: ")
                   /\ LET at == IF notes[1] = Ch("No JSON object found in agent output. Content preview: ")
                                THEN 2 ELSE 4
                          preview == SubSeq(notes, at, Len(notes))
                      IN  /\ IsPreviewOf(preview, Strip(PayloadString(pIn)))
                          /\ TextWidth(preview) <= PreviewLen
            /\ pIn.wrap \in {"result", "both"} =>
                   /\ Len(notes) = 2
                   /\ notes[1] \in {Ch("Failed to parse JSON from result string: "),
                                     Ch("Parsed output is not a dictionary. Type: ")}

C12_Witness ==
    /\ Normalised
    /\ UnparsableString(pIn)
    /\ pIn.wrap = "output" /\ pIn.enc = "str"
    /\ pIn.pre = <<Ch("{"), [run |-> "x", n |-> PreviewLen]>>
    /\ TextWidth(Strip(PayloadString(pIn))) > PreviewLen
    /\ Out.safety_notes.s[Len(Out.safety_notes.s)] = [run |-> "x", n |-> PreviewLen - 1]

\* C13: parse_agent_output is idempotent: applied to the record it returned
\* for a response, it returns that record again.
C13_Idempotent ==
    Normalised => ParseAgentOutput(PyDict(Out)) = Out

C13_Witness ==
    /\ Normalised
    /\ pIn.wrap = "result" /\ pIn.enc = "str"
    /\ IsDict(pIn.val)
    /\ DOMAIN pIn.val.d = {"title", "is_safe"}
    /\ pIn.val.d.is_safe = Text(<<"Y", "e", "s">>)
    /\ Out.is_safe = PyBool(TRUE)
    /\ WarningAt(Out.safety_notes.s) # 0
    /\ Out # pIn.val.d
    /\ ParseAgentOutput(PyDict(Out)) = Out

\* C14: with no API credential configured, call_recipe_agent returns an error
\* value {error: message} and sends no request to the provider, whatever
\* cuisine, allergies and ingredients it is called with.
C14_NoCredentialNoNetwork ==
    AIRIA_API_KEY = "" =>
        \A s \in Subs :
            /\ \A i \in DOMAIN calls[s] : ~calls[s][i].network
            /\ Len(calls[s]) > 0 =>
                   /\ pc[s] # "raised"
                   /\ IsDict(agent_result[s])
                   /\ DOMAIN agent_result[s].d = {"error"}
                   /\ IsStr(agent_result[s].d.error)
                   /\ Len(agent_result[s].d.error.s) > 0

C14_Witness ==
    /\ AIRIA_API_KEY = ""
    /\ \E s, u \in Subs :
           /\ Len(calls[s]) = 1 /\ Len(calls[u]) = 1
           /\ requests[recipe_request[s]].allergies = <<>>
           /\ requests[recipe_request[u]].allergies # <<>>
           /\ IsErrorValue(agent_result[s]) /\ IsErrorValue(agent_result[u])
           /\ ~calls[s][1].network /\ ~calls[u][1].network

\* C15: a valid submission whose allergies field is blank ends with a final
\* result that is safe and with exactly one attempt persisted for its request.
C15_BlankAllergiesAlwaysSafe ==
    \A s \in Subs :
        (Completed(s) /\ IsValidSubmission(s)
         /\ requests[recipe_request[s]].allergies = <<>>)
        => /\ context[s].t = "result"
           /\ context[s].is_safe = PyBool(TRUE)
           /\ Cardinality(AttemptsOfSub(s)) = 1

\* The record a simulated agent returned.
SimOut == CHOOSE o \in simOut : TRUE
Inspected == simOut # {} /\ simIn.fn = "inspector"
Cooked == simOut # {} /\ simIn.fn = "chef"
\* An allergy text that is empty or nothing but whitespace.
BlankText(a) == \A i \in DOMAIN a : a[i] = Ch(" ")
\* An allergy text one of whose comma-separated entries is "nuts", in any
\* case and with any spacing around it.
NutsListed(a) ==
    \E i \in DOMAIN Split(a, ",") : Lower(Strip(Split(a, ",")[i])) = NutsWord

\* C16: the allergy matcher returns is_safe true for every recipe name and
\* recipe text when the allergy text is empty or whitespace-only.
C16_BlankAllergiesAreSafe ==
    (Inspected /\ BlankText(simIn.allergies)) => SimOut.is_safe = PyBool(TRUE)

C16_Witness ==
    /\ Inspected
    /\ simIn.allergies = Chars(<<" ">>)
    /\ simIn.recipe_name = PestoPasta
    /\ Contains(simIn.recipe_text, PineNuts)
    /\ SimOut.is_safe = PyBool(TRUE)

\* C17: when the allergy text lists "nuts", the matcher returns is_safe false
\* with a note containing "UNSAFE" and "pine nuts" if the recipe name contains
\* "pesto" or the recipe text contains "pine nuts" (any case), and is_safe
\* true if neither does.
C17_NutsAllergyFlagsPestoAndPineNuts ==
    (Inspected /\ NutsListed(simIn.allergies)) =>
        IF \/ Contains(Lower(simIn.recipe_name), PestoWord)
           \/ Contains(Lower(simIn.recipe_text), PineNuts)
        THEN /\ SimOut.is_safe = PyBool(FALSE)
             /\ Contains(SimOut.safety_notes.s, Msg("UNSAFE"))
             /\ Contains(Lower(SimOut.safety_notes.s), PineNuts)
        ELSE SimOut.is_safe = PyBool(TRUE)

C17_Witness ==
    /\ Inspected
    /\ simIn.allergies = CommaList(<<Chars(<<"d", "a", "i", "r", "y">>),
                                     Chars(<<"N", "U", "T", "S">>)>>)
    /\ simIn.recipe_name = Chars(<<"S", "o", "u", "p">>)
    /\ simIn.recipe_text = Chars(<<"P", "I", "N", "E", " ", "N", "U", "T", "S">>)
    /\ SimOut.is_safe = PyBool(FALSE)

ObjectInsideText(shape) ==
    /\ shape.enc = "str"
    /\ IsDict(shape.val)
    /\ ~AllSpaces(shape.pre) \/ ~AllSpaces(shape.post)
    /\ ~HasChar(shape.pre, "{") /\ ~HasChar(shape.post, "}")

\* C19: the payload is selected by one ordered rule: "result" if the response
\* has it, whatever is under "output"; otherwise "output" if present;
\* otherwise the response itself.  An object embedded in text is extracted
\* from an "output" string but not from a "result" string, which is reported
\* as a parse failure.
C19_ResultBeforeOutputBeforeRaw ==
    Normalised =>
        /\ (pIn.enc = "obj" /\ ~IsStr(pIn.val) /\ (pIn.wrap = "raw" => IsDict(pIn.val)))
           => Out = ParseOutput(pIn.val)
        /\ pIn.wrap = "both"
           => /\ Out.recipe_name # DecoyPayload.recipe_name
              /\ Out.safety_notes # DecoyPayload.safety_notes
              /\ pOut = {ParseAgentOutput(RawOf([pIn EXCEPT !.wrap = "result"]))}
        /\ ObjectInsideText(pIn)
           => IF pIn.wrap = "output"
              THEN Out = ParseOutput(pIn.val)
              ELSE Out = FailureRecord(Msg("Failed to parse JSON from result string: ")
                                       \o Msg("<JSONDecodeError>"))

C19_Witness ==
    /\ Normalised
    /\ ObjectInsideText(pIn)
    /\ pIn.wrap = "both"
    /\ pIn.pre = Chars(<<"x">>) /\ pIn.post = <<>>
    /\ DOMAIN pIn.val.d = ResultKeys
    /\ pIn.val.d.recipe_name = Text(<<"Pesto Pasta">>)
    /\ pIn.val.d.is_safe = PyBool(TRUE)
    /\ IsStr(pIn.val.d.safety_notes)
    /\ Out.is_safe = PyBool(FALSE)
    /\ ParseAgentOutput(PyDict([output |-> RawOf(pIn).d.result])) = pIn.val.d

====
